---- MODULE Spec2Model ----
(***************************************************************************)
(* Model of the dusty reporters: the Jira reporter (report_normal and      *)
(* report_multi of dusty/reporters/jira/reporter.py), the engagement       *)
(* reporter and the post-processing helpers of dusty/utils.py.             *)
(*                                                                         *)
(* A run of the Jira reporter is a batch transformation in phases, each    *)
(* modelled by its own specification over the shared variables:            *)
(*   SpecChunk  - description chunking of one finding (first pass: greedy  *)
(*                fragment packing; second pass: max_description_size cut) *)
(*   SpecSubmit - the submission loop over the prepared findings           *)
(*   SpecRoute  - report_multi's set-up and per-finding routing / mapping  *)
(*                                                                         *)
(* Texts are sequences of characters.  The characters of an input text are *)
(* the positive integers 1, 2, 3, ... in text order, so that a lost, a     *)
(* duplicated or a reordered character is visible; the characters of the   *)
(* cut marker and of the separators are not positive.                      *)
(***************************************************************************)
EXTENDS Integers, Sequences, FiniteSets, TLC

(***************************************************************************)
(* Bounds of the model.                                                    *)
(***************************************************************************)
MaxFragments == 3         \* fragments of a SastFinding description
MaxFragmentLen == 10      \* characters of one fragment
MaxTextLen == 14          \* characters of a DastFinding description
MaxConfiguredSize == 13   \* largest configured max_description_size
MaxFindings == 2          \* prepared findings of one run
MaxComments == 2          \* comments of one prepared finding
MaxRules == 2             \* rules of a pattern-keyed mapping of the configuration
MaxEndpoints == 2         \* endpoints of one finding

(***************************************************************************)
(* Constants of dusty/reporters/jira/constants.py, scaled down so that the *)
(* texts stay small; their order is kept: the cut marker is shorter than   *)
(* the comment ceiling, which is lower than the body ceiling.              *)
(***************************************************************************)
JIRA_DESCRIPTION_MAX_SIZE == 12
JIRA_COMMENT_MAX_SIZE == 9
JIRA_DESCRIPTION_CUT == <<0, 0, 0>>

\* "\n\n" (reporter.py:491) and '  \n  \n' (reporter.py:495); -1 is a newline, -2 a space
join_str == <<-1, -1>>
new_line_str == <<-2, -2, -1, -2, -2, -1>>

Min(a, b) == IF a < b THEN a ELSE b
Max(a, b) == IF a > b THEN a ELSE b

(***************************************************************************)
(* Python's slices text[:n] and text[n:], also for a negative n.           *)
(***************************************************************************)
SliceIndex(text, n) == IF n >= 0 THEN Min(n, Len(text)) ELSE Max(Len(text) + n, 0)
SliceTo(text, n) == SubSeq(text, 1, SliceIndex(text, n))
SliceFrom(text, n) == SubSeq(text, SliceIndex(text, n) + 1, Len(text))

RECURSIVE Concat(_)
Concat(texts) == IF texts = <<>> THEN <<>> ELSE Head(texts) \o Concat(Tail(texts))

\* "\n\n".join(description_chunks)
RECURSIVE Join(_)
Join(chunks) ==
    IF chunks = <<>> THEN <<>>
    ELSE IF Len(chunks) = 1 THEN Head(chunks)
    ELSE Head(chunks) \o join_str \o Join(Tail(chunks))

\* legacy.cut_jira_comment: a comment longer than the comment ceiling is cut
\* below it (the closing of a cut code block keeps the length and is left out)
cut_jira_comment(comment) ==
    IF Len(comment) > JIRA_COMMENT_MAX_SIZE
    THEN SubSeq(comment, 1, JIRA_COMMENT_MAX_SIZE - 1)
    ELSE comment

\* reporter.py:491: the fragments go to comments when the joined text is too long
FirstPassNeeded_Inclusive(chunks) == Len(Join(chunks)) >= JIRA_DESCRIPTION_MAX_SIZE
FirstPassNeeded(chunks) == Len(Join(chunks)) > JIRA_DESCRIPTION_MAX_SIZE

\* reporter.py:497-498: the next fragment starts a new comment
StartsNewComment_NoSeparator(last, chunk) ==
    Len(last) + Len(chunk) >= JIRA_COMMENT_MAX_SIZE
StartsNewComment(last, chunk) ==
    Len(last) + Len(new_line_str) + Len(chunk) >= JIRA_COMMENT_MAX_SIZE

\* reporter.py:496-501: greedy packing of the fragments after the first one
RECURSIVE Pack(_, _)
Pack(chunks, comments) ==
    IF chunks = <<>> THEN comments
    ELSE LET chunk == Head(chunks) IN
         IF comments = <<>> \/ StartsNewComment(comments[Len(comments)], chunk)
         THEN Pack(Tail(chunks), Append(comments, cut_jira_comment(chunk)))
         ELSE Pack(Tail(chunks),
                   [comments EXCEPT ![Len(comments)] =
                        @ \o new_line_str \o cut_jira_comment(chunk)])

\* reporter.py:491-504: (description, comments) of a SastFinding
SastDescription(chunks) == IF FirstPassNeeded(chunks) THEN chunks[1] ELSE Join(chunks)
SastComments(chunks) == IF FirstPassNeeded(chunks) THEN Pack(Tail(chunks), <<>>) ELSE <<>>

\* reporter.py:561-564
CommentCutThreshold(size) == Min(JIRA_COMMENT_MAX_SIZE, size)

\* reporter.py:577-578: insert(0, pop()) until comment_chunks is empty
InsertChunks_Appended(comments_, chunks) == comments_ \o chunks
InsertChunks(comments_, chunks) == chunks \o comments_

(***************************************************************************)
(* The input texts.                                                        *)
(***************************************************************************)
RECURSIVE SumLens(_)
SumLens(lens) == IF lens = <<>> THEN 0 ELSE Head(lens) + SumLens(Tail(lens))

\* the fragment of the given length whose first character is number from + 1
Text(from, len) == [i \in 1..len |-> from + i]

\* the fragments of the given lengths, their characters numbered in text order
Fragments(lens) == [j \in 1..Len(lens) |-> Text(SumLens(SubSeq(lens, 1, j - 1)), lens[j])]

FragmentLens ==
    UNION {[1..n -> 0..MaxFragmentLen] : n \in 0..MaxFragments}

VARIABLES
    pc,                    \* where the run is
    item,                  \* the finding being prepared: [kind, description]
    max_description_size,  \* config "max_description_size"; 0 when not set
    description,           \* finding["description"]
    comments,              \* finding["comments"]; <<>> also when the key is absent
    has_comments,          \* "comments" in finding
    item_description,      \* reporter.py:556
    description_data,      \* reporter.py:560
    comment_chunks,        \* reporter.py:552
    findings,              \* the prepared findings, in submission order
    separate_epic_linkage, \* config "separate_epic_linkage"
    idx,                   \* position of the loop of reporter.py:589; 0 before connect()
    issue,                 \* reporter.py:602
    created,               \* reporter.py:602
    comment_index,         \* position of the loop of reporter.py:613
    new_tickets,           \* reporter.py:587
    existing_tickets,      \* reporter.py:588
    errors,                \* self.errors
    meta,                  \* what set_meta has stored
    attempted,             \* history: findings create_issue was called for
    returned,              \* history: what create_issue returned, in call order
    failing,               \* history: findings with a step that raised
    epic_calls,            \* history: the add_issues_to_epic calls and how they ended
    calls,                 \* history: the tracker calls and record steps, in order
    config,                \* self.config
    context_findings,      \* self.context.findings
    item_index,            \* position of the loop of reporter.py:129
    wrappers,              \* reporter.py:71, in insertion order; the first is wrappers[None]
    dynamic_label_mapping, \* reporter.py:112
    dynamic_field_mapping, \* reporter.py:120
    JIRA_SEVERITY_MAPPING, \* constants.JIRA_SEVERITY_MAPPING, a module-level dict
    exception,             \* what the run raised; "" while it has not
    results,               \* utils.py:98: the argument of process_false_positives
    false_positive_config, \* the file at constants.FALSE_POSITIVE_CONFIG
    filtered               \* what process_false_positives returned

chunkVars == <<item, max_description_size, description, comments, has_comments,
               item_description, description_data, comment_chunks>>

submitVars == <<findings, separate_epic_linkage, idx, issue, created, comment_index,
                new_tickets, existing_tickets, errors, meta, attempted, returned,
                failing, epic_calls, calls>>

routeVars == <<config, context_findings, item_index, wrappers, dynamic_label_mapping,
               dynamic_field_mapping, JIRA_SEVERITY_MAPPING>>

utilsVars == <<results, false_positive_config, filtered>>

vars == <<pc, exception, chunkVars, submitVars, routeVars, utilsVars>>

\* the loop of reporter.py:567 is followed for at most this many chunks
MaxChunks == MaxTextLen + MaxFragmentLen + 2

NoIssue == [key |-> 0, status |-> "", parsable |-> FALSE]

\* dusty.constants.SEVERITIES, most severe first
SEVERITIES == <<"Critical", "High", "Medium", "Low", "Info">>

\* constants.JIRA_SEVERITY_MAPPING as the module is loaded
DefaultSeverityMapping ==
    [severity \in {"Critical", "High", "Medium", "Low", "Info"} |->
        CASE severity = "Critical" -> "Critical"
          [] severity = "High" -> "Major"
          [] severity = "Medium" -> "Medium"
          [] severity = "Low" -> "Minor"
          [] severity = "Info" -> "Trivial"]

EmptyMapping == [key \in {} |-> ""]

NoTarget == [valid |-> TRUE, has_custom |-> FALSE, custom_mapping |-> EmptyMapping,
             prepared |-> EmptyMapping]

\* ReporterModel.set_meta(name, value)
set_meta(meta_, name, value) ==
    [key \in DOMAIN meta_ \cup {name} |-> IF key = name THEN value ELSE meta_[key]]

UtilsIdle ==
    /\ results = <<>>
    /\ false_positive_config = [exists |-> FALSE, lines |-> <<>>]
    /\ filtered = <<>>

RouteIdle ==
    /\ config = [dynamic_jira |-> <<>>, dynamic_labels |-> <<>>,
                 dynamic_fields |-> <<>>, target |-> NoTarget]
    /\ context_findings = <<>>
    /\ item_index = 0
    /\ wrappers = <<>>
    /\ dynamic_label_mapping = <<>>
    /\ dynamic_field_mapping = <<>>
    /\ JIRA_SEVERITY_MAPPING = DefaultSeverityMapping

SubmitIdle ==
    /\ findings = <<>>
    /\ separate_epic_linkage = FALSE
    /\ idx = 0
    /\ issue = NoIssue
    /\ created = FALSE
    /\ comment_index = 0
    /\ new_tickets = <<>>
    /\ existing_tickets = <<>>
    /\ errors = <<>>
    /\ meta = <<>>
    /\ attempted = {}
    /\ returned = <<>>
    /\ failing = {}
    /\ epic_calls = {}
    /\ calls = <<>>

(***************************************************************************)
(* SpecChunk: one finding through reporter.py:432-578.                     *)
(***************************************************************************)
ChunkIdle ==
    /\ description = <<>>
    /\ comments = <<>>
    /\ has_comments = FALSE
    /\ item_description = <<>>
    /\ description_data = <<>>
    /\ comment_chunks = <<>>

InitChunk ==
    /\ pc = "prepare"
    /\ \/ \E n \in 0..MaxTextLen :
             item = [kind |-> "DastFinding", description |-> Text(0, n)]
       \/ \E lens \in FragmentLens :
             item = [kind |-> "SastFinding", description |-> Fragments(lens)]
    /\ max_description_size \in 0..MaxConfiguredSize
    /\ ChunkIdle
    /\ SubmitIdle
    /\ RouteIdle
    /\ exception = ""
    /\ UtilsIdle

\* reporter.py:432-540, the description of the prepared finding
PrepareDescription ==
    /\ pc = "prepare"
    /\ IF item.kind = "DastFinding"
       THEN /\ description' = item.description
            /\ comments' = <<>>
            /\ has_comments' = FALSE
       ELSE /\ description' = SastDescription(item.description)
            /\ comments' = SastComments(item.description)
            /\ has_comments' = TRUE
    /\ pc' = "cut"
    /\ UNCHANGED <<item, max_description_size, item_description, description_data,
                   comment_chunks>>
    /\ UNCHANGED <<submitVars, routeVars, exception>>
    /\ UNCHANGED utilsVars

\* reporter.py:546-565: the body is cut when longer than the configured size
CutDescription ==
    /\ pc = "cut"
    /\ IF max_description_size # 0 /\ Len(description) > max_description_size
       THEN LET cut_point == max_description_size - Len(JIRA_DESCRIPTION_CUT) IN
            /\ has_comments' = TRUE
            /\ comment_chunks' = <<>>
            /\ item_description' = description
            /\ description' = SliceTo(description, cut_point) \o JIRA_DESCRIPTION_CUT
            /\ description_data' = SliceFrom(description, cut_point)
            /\ pc' = "cut_loop"
            /\ UNCHANGED <<item, max_description_size, comments>>
       ELSE /\ pc' = "prepared"
            /\ UNCHANGED chunkVars
    /\ UNCHANGED <<submitVars, routeVars, exception>>
    /\ UNCHANGED utilsVars

\* reporter.py:567-575: one iteration of the loop over the remainder
CutLoop ==
    /\ pc = "cut_loop"
    /\ Len(comment_chunks) < MaxChunks
    /\ LET comment_cut_threshold == CommentCutThreshold(max_description_size)
           cut_point == comment_cut_threshold - Len(JIRA_DESCRIPTION_CUT)
       IN  IF description_data = <<>>
           THEN /\ pc' = "cut_insert"
                /\ UNCHANGED <<comment_chunks, description_data>>
           ELSE IF Len(description_data) > comment_cut_threshold
           THEN /\ comment_chunks' = Append(comment_chunks,
                        SliceTo(description_data, cut_point) \o JIRA_DESCRIPTION_CUT)
                /\ description_data' = SliceFrom(description_data, cut_point)
                /\ pc' = "cut_loop"
           ELSE /\ comment_chunks' = Append(comment_chunks, description_data)
                /\ pc' = "cut_insert"
                /\ UNCHANGED description_data
    /\ UNCHANGED <<item, max_description_size, description, comments, has_comments,
                   item_description>>
    /\ UNCHANGED <<submitVars, routeVars, exception>>
    /\ UNCHANGED utilsVars

\* reporter.py:577-578
CutInsert ==
    /\ pc = "cut_insert"
    /\ comments' = InsertChunks(comments, comment_chunks)
    /\ comment_chunks' = <<>>
    /\ pc' = "prepared"
    /\ UNCHANGED <<item, max_description_size, description, has_comments,
                   item_description, description_data>>
    /\ UNCHANGED <<submitVars, routeVars, exception>>
    /\ UNCHANGED utilsVars

NextChunk ==
    \/ PrepareDescription
    \/ CutDescription
    \/ CutLoop
    \/ CutInsert

SpecChunk == InitChunk /\ [][NextChunk]_vars

(***************************************************************************)
(* The chunker's input and its first-pass result, for the claims.          *)
(***************************************************************************)
\* the characters of a text that are neither cut marker nor separator
Strip(text) == SelectSeq(text, LAMBDA c : c > 0)

\* the normalized input text, its fragments joined
JoinedInput ==
    IF item.kind = "DastFinding" THEN item.description ELSE Join(item.description)

\* the characters of the input, in text order
InputChars ==
    IF item.kind = "DastFinding" THEN item.description ELSE Concat(item.description)

\* body and comments before the max_description_size cut
FirstBody ==
    IF item.kind = "DastFinding" THEN item.description
    ELSE SastDescription(item.description)
FirstComments ==
    IF item.kind = "DastFinding" THEN <<>> ELSE SastComments(item.description)

CutApplies == max_description_size # 0 /\ Len(FirstBody) > max_description_size

\* C3 (as amended): when the body exceeds max_description_size and the first
\* pass produced comments, the chunks re-cut from the body remainder come
\* first, in text order, and the first-pass comments follow them unchanged
\* and in their original order.
C3_RemainderChunksFirst ==
    (pc = "prepared" /\ CutApplies /\ FirstComments # <<>>) =>
        LET k == Len(comments) - Len(FirstComments) IN
        /\ k >= 1
        /\ SubSeq(comments, k + 1, Len(comments)) = FirstComments
        /\ Strip(Concat(SubSeq(comments, 1, k))) =
               SliceFrom(FirstBody, max_description_size - Len(JIRA_DESCRIPTION_CUT))

C3_Witness ==
    /\ pc = "prepared"
    /\ CutApplies
    /\ Len(FirstComments) >= 2
    /\ Len(comments) >= Len(FirstComments) + 2

\* C3 as stated: the first-pass comments are placed ahead of the re-cut chunks
C3_FirstPassCommentsFirst ==
    (pc = "prepared" /\ CutApplies /\ FirstComments # <<>>) =>
        SubSeq(comments, 1, Len(FirstComments)) = FirstComments

\* C4 as stated: body followed by the comments, markers (and separators)
\* stripped, is the input text with no character lost, duplicated or reordered
C4_Reconstruction ==
    pc = "prepared" => Strip(description \o Concat(comments)) = InputChars

\* C5: every comment of a prepared finding is at most JIRA_COMMENT_MAX_SIZE
\* characters long, whichever pass produced it.
C5_CommentBound ==
    pc = "prepared" =>
        \A i \in 1..Len(comments) : Len(comments[i]) <= JIRA_COMMENT_MAX_SIZE

\* a re-cut chunk carrying the marker ahead of a comment packed from two fragments
C5_Witness ==
    /\ pc = "prepared"
    /\ Len(comments) >= 2
    /\ \E c \in 1..Len(comments[1]) : comments[1][c] = 0
    /\ \E c \in 1..Len(comments[Len(comments)]) : comments[Len(comments)][c] = -2

\* C6 (as amended): a finding whose joined text is within the body ceiling,
\* with max_description_size unset or at least the joined length, is prepared
\* as (joined text, no comments).
C6_ShortInputUncut ==
    (/\ pc = "prepared"
     /\ Len(JoinedInput) <= JIRA_DESCRIPTION_MAX_SIZE
     /\ (max_description_size = 0 \/ Len(JoinedInput) <= max_description_size)) =>
        (description = JoinedInput /\ comments = <<>>)

C6_Witness ==
    /\ pc = "prepared"
    /\ item.kind = "SastFinding"
    /\ Len(item.description) >= 2
    /\ Len(JoinedInput) = JIRA_DESCRIPTION_MAX_SIZE
    /\ max_description_size >= JIRA_DESCRIPTION_MAX_SIZE
    /\ description = JoinedInput
    /\ comments = <<>>

\* C6 as stated: within the body ceiling, for any configuration
C6_ShortInputAnyConfiguration ==
    (pc = "prepared" /\ Len(JoinedInput) <= JIRA_DESCRIPTION_MAX_SIZE) =>
        (description = JoinedInput /\ comments = <<>>)

\* C7 as stated: a body longer than max_description_size is submitted as its
\* first (max_description_size - len(marker)) characters plus the marker, and
\* is exactly max_description_size long
C7_BodyTruncation ==
    (pc = "prepared" /\ CutApplies) =>
        /\ description =
               SubSeq(FirstBody, 1, max_description_size - Len(JIRA_DESCRIPTION_CUT))
                   \o JIRA_DESCRIPTION_CUT
        /\ Len(description) = max_description_size

(***************************************************************************)
(* SpecSubmit: the submission of the prepared findings, reporter.py:586-663 *)
(* (report_normal) and 290-372 (report_multi, where the tracker of a       *)
(* finding is finding["wrapper"]["wrapper"]).  The tracker is the          *)
(* environment: create_issue raises or returns any issue with created      *)
(* true or false, add_comment_to_issue and add_issues_to_epic raise or     *)
(* return, and an issue's fields may fail to yield a ticket record.        *)
(***************************************************************************)
ChunkUnused ==
    /\ item = [kind |-> "DastFinding", description |-> <<>>]
    /\ max_description_size = 0
    /\ ChunkIdle

Keys == {1, 2}
Statuses == {"Open", "Closed"}

\* constants.JIRA_OPENED_STATUSES
JIRA_OPENED_STATUSES == {"Open", "In Progress"}

\* the issues create_issue may return; parsable: the fields read by
\* reporter.py:627-645 are there and fields.created matches the time format
Issues == [key : Keys, status : Statuses, parsable : BOOLEAN]

\* the prepared findings: the title and the comments, when the key is there
PreparedFinding(title, with_comments, n) ==
    [title |-> title, has_comments |-> with_comments,
     comments |-> [c \in 1..n |-> c]]

PreparedFindings(title) ==
    {PreparedFinding(title, FALSE, 0)} \cup
    {PreparedFinding(title, TRUE, n) : n \in 0..MaxComments}

\* the last finding has any of the comment lists; the ones ahead of it have no
\* "comments" key or one comment
PreparedLists ==
    UNION {{fs \in [1..n -> UNION {PreparedFindings(t) : t \in 1..n}] :
                \A t \in 1..n :
                    /\ fs[t].title = t
                    /\ t < n => Len(fs[t].comments) = (IF fs[t].has_comments THEN 1 ELSE 0)} :
           n \in 0..MaxFindings}

InitSubmit ==
    /\ pc = "connect"
    /\ ChunkUnused
    /\ RouteIdle
    /\ exception = ""
    /\ findings \in PreparedLists
    /\ separate_epic_linkage \in BOOLEAN
    /\ idx = 0
    /\ issue = NoIssue
    /\ created = FALSE
    /\ comment_index = 0
    /\ new_tickets = <<>>
    /\ existing_tickets = <<>>
    /\ errors = <<>>
    /\ meta = <<>>
    /\ attempted = {}
    /\ returned = <<>>
    /\ failing = {}
    /\ epic_calls = {}
    /\ calls = <<>>
    /\ UtilsIdle

\* an entry of the history of calls: the operation, the finding it is for and,
\* for a comment, the comment
Call(op, finding, arg) == [op |-> op, finding |-> finding, arg |-> arg]

\* reporter.py:590, 653: the steps of a finding that the try statement covers
Caught_CreateOnly(step) == step = "create_issue"
Caught(step) == step \in {"create_issue", "add_comment", "record"}

\* a step of the current finding raises
Raises(step) ==
    /\ pc' = IF Caught(step) THEN "except" ELSE "raised"
    /\ exception' = IF Caught(step) THEN exception ELSE "Exception"
    /\ failing' = failing \cup {idx}

\* reporter.py:665-670
_ticket_in_list_ByRecord(ticket_meta, tickets_list) ==
    \E i \in 1..Len(tickets_list) : tickets_list[i] = ticket_meta
_ticket_in_list(ticket_meta, tickets_list) ==
    \E i \in 1..Len(tickets_list) : tickets_list[i].jira_id = ticket_meta.jira_id

\* reporter.py:586 (293-294): connect() is outside every try statement
Connect ==
    /\ pc = "connect"
    /\ calls' = Append(calls, Call("connect", 0, 0))
    /\ \/ pc' = "raised" /\ exception' = "Exception" /\ UNCHANGED idx
       \/ pc' = "create_issue" /\ idx' = 1 /\ UNCHANGED exception
    /\ UNCHANGED <<findings, separate_epic_linkage, issue, created, comment_index,
                   new_tickets, existing_tickets, errors, meta, attempted, returned,
                   failing, epic_calls>>
    /\ UNCHANGED <<chunkVars, routeVars>>
    /\ UNCHANGED utilsVars

\* reporter.py:589-611
CreateIssue ==
    /\ pc = "create_issue"
    /\ idx <= Len(findings)
    /\ attempted' = attempted \cup {idx}
    /\ calls' = Append(calls, Call("create_issue", findings[idx].title, 0))
    /\ \/ /\ Raises("create_issue")
          /\ UNCHANGED <<issue, created, returned>>
       \/ \E i \in Issues, c \in BOOLEAN :
             /\ issue' = i
             /\ created' = c
             /\ returned' = Append(returned, [key |-> i.key, created |-> c])
             /\ pc' = "add_comment"
             /\ UNCHANGED <<failing, exception>>
    /\ comment_index' = 1
    /\ UNCHANGED <<findings, separate_epic_linkage, idx, new_tickets,
                   existing_tickets, errors, meta, epic_calls>>
    /\ UNCHANGED <<chunkVars, routeVars>>
    /\ UNCHANGED utilsVars

\* reporter.py:612-613 (318-319): the comments the ticket of a finding receives
PendingComments_Uncreated(finding, created_) ==
    IF finding.has_comments THEN finding.comments ELSE <<>>
PendingComments(finding, created_) ==
    IF created_ /\ finding.has_comments THEN finding.comments ELSE <<>>

\* reporter.py:612-614: one comment of the created ticket
AddComment ==
    /\ pc = "add_comment"
    /\ IF comment_index <= Len(PendingComments(findings[idx], created))
       THEN /\ calls' = Append(calls, Call("add_comment_to_issue", findings[idx].title,
                                          PendingComments(findings[idx], created)[comment_index]))
            /\ \/ /\ Raises("add_comment")
                  /\ UNCHANGED comment_index
               \/ /\ comment_index' = comment_index + 1
                  /\ UNCHANGED <<pc, failing, exception>>
       ELSE /\ pc' = "link_epic"
            /\ UNCHANGED <<comment_index, failing, exception, calls>>
    /\ UNCHANGED <<findings, separate_epic_linkage, idx, issue, created, new_tickets,
                   existing_tickets, errors, meta, attempted, returned, epic_calls>>
    /\ UNCHANGED <<chunkVars, routeVars>>
    /\ UNCHANGED utilsVars

\* reporter.py:616-621 (322-330): where the run goes on after add_issues_to_epic;
\* the inner try statement logs what it raises
AfterEpic_Propagating(raised) == IF raised THEN "except" ELSE "record"
AfterEpic(raised) == "record"

\* reporter.py:615-621: add_issues_to_epic, whose exception is logged only
LinkEpic ==
    /\ pc = "link_epic"
    /\ IF created /\ separate_epic_linkage
       THEN /\ \E raised \in BOOLEAN :
                  /\ epic_calls' = epic_calls \cup {[finding |-> idx, raised |-> raised]}
                  /\ pc' = AfterEpic(raised)
            /\ calls' = Append(calls, Call("add_issues_to_epic", findings[idx].title, 0))
       ELSE /\ pc' = "record"
            /\ UNCHANGED <<epic_calls, calls>>
    /\ UNCHANGED exception
    /\ UNCHANGED <<findings, separate_epic_linkage, idx, issue, created, comment_index,
                   new_tickets, existing_tickets, errors, meta, attempted, returned,
                   failing>>
    /\ UNCHANGED <<chunkVars, routeVars>>
    /\ UNCHANGED utilsVars

\* reporter.py:622-652
RecordTicket ==
    /\ pc = "record"
    /\ IF ~issue.parsable
       THEN /\ Raises("record")
            /\ UNCHANGED <<idx, new_tickets, existing_tickets, calls>>
       ELSE LET ticket_meta == [jira_id |-> issue.key, status |-> issue.status] IN
            /\ IF created
               THEN /\ new_tickets' =
                         IF _ticket_in_list(ticket_meta, new_tickets)
                         THEN new_tickets ELSE Append(new_tickets, ticket_meta)
                    /\ UNCHANGED existing_tickets
               ELSE /\ existing_tickets' =
                         IF issue.status \in JIRA_OPENED_STATUSES
                            /\ ~_ticket_in_list(ticket_meta, existing_tickets)
                         THEN Append(existing_tickets, ticket_meta)
                         ELSE existing_tickets
                    /\ UNCHANGED new_tickets
            /\ calls' = Append(calls, Call("record", findings[idx].title, 0))
            /\ idx' = idx + 1
            /\ pc' = "create_issue"
            /\ UNCHANGED <<failing, exception>>
    /\ UNCHANGED <<findings, separate_epic_linkage, issue, created, comment_index,
                   errors, meta, attempted, returned, epic_calls>>
    /\ UNCHANGED <<chunkVars, routeVars>>
    /\ UNCHANGED utilsVars

\* reporter.py:653-660
HandleError ==
    /\ pc = "except"
    /\ errors' = Append(errors, [tool |-> "Jira", title |-> findings[idx].title])
    /\ idx' = idx + 1
    /\ pc' = "create_issue"
    /\ UNCHANGED exception
    /\ UNCHANGED <<findings, separate_epic_linkage, issue, created, comment_index,
                   new_tickets, existing_tickets, meta, attempted, returned, failing,
                   epic_calls, calls>>
    /\ UNCHANGED <<chunkVars, routeVars>>
    /\ UNCHANGED utilsVars

\* reporter.py:661-663
SetMeta ==
    /\ pc = "create_issue"
    /\ idx > Len(findings)
    /\ meta' = set_meta(set_meta(meta, "new_tickets", new_tickets),
                         "existing_tickets", existing_tickets)
    /\ pc' = "done"
    /\ UNCHANGED exception
    /\ UNCHANGED <<findings, separate_epic_linkage, idx, issue, created, comment_index,
                   new_tickets, existing_tickets, errors, attempted, returned, failing,
                   epic_calls, calls>>
    /\ UNCHANGED <<chunkVars, routeVars>>
    /\ UNCHANGED utilsVars

NextSubmit ==
    \/ Connect
    \/ CreateIssue
    \/ AddComment
    \/ LinkEpic
    \/ RecordTicket
    \/ HandleError
    \/ SetMeta

SpecSubmit == InitSubmit /\ [][NextSubmit]_vars

\* the number of entries of a ticket list with the given id
RECURSIVE Entries(_, _)
Entries(tickets_list, key) ==
    IF tickets_list = <<>> THEN 0
    ELSE (IF Head(tickets_list).jira_id = key THEN 1 ELSE 0)
             + Entries(Tail(tickets_list), key)

\* C1: failures of findings are isolated: the loop never raises, a run that
\* connected ends with exactly one Error per failing finding, and create_issue
\* was attempted for every finding, those after a failing one included.
C1_FailureIsolation ==
    /\ pc = "raised" => idx = 0
    /\ pc = "done" =>
         /\ Len(errors) = Cardinality(failing)
         /\ \A f \in failing :
              Cardinality({e \in 1..Len(errors) : errors[e].title = f}) = 1
         /\ attempted = 1..Len(findings)

\* the first finding fails, the second one is submitted and recorded
C1_Witness ==
    /\ pc = "done"
    /\ Len(findings) >= 2
    /\ failing = {1}
    /\ Len(errors) = 1
    /\ 2 \in attempted
    /\ new_tickets # <<>>

\* C2 as stated: an id that create_issue returned twice or more is not twice
\* in new_tickets, not twice in existing_tickets and not in both lists
C2_Deduplication ==
    \A key \in Keys :
        Cardinality({r \in 1..Len(returned) : returned[r].key = key}) >= 2 =>
            Entries(new_tickets, key) + Entries(existing_tickets, key) <= 1

\* the record step of a finding whose issue fields are read without raising
RecordStep == pc = "record" /\ pc' = "create_issue"

\* reporter.py:627-645: the ticket record of the current issue
TicketRecord == [jira_id |-> issue.key, status |-> issue.status]

\* C17 (as amended): the record of a successfully processed finding is
\* appended to new_tickets exactly when create_issue reported created = true
\* and no entry of new_tickets has its id (whatever the status); when created
\* is false it is appended to existing_tickets only if the status is one of
\* Open, In Progress and no entry has its id, and for any other status
\* neither list changes.
C17_RecordPlacement ==
    [][RecordStep =>
          /\ created =>
               /\ new_tickets' = IF Entries(new_tickets, issue.key) > 0
                                 THEN new_tickets
                                 ELSE Append(new_tickets, TicketRecord)
               /\ existing_tickets' = existing_tickets
          /\ ~created =>
               /\ new_tickets' = new_tickets
               /\ existing_tickets' = IF issue.status \in {"Open", "In Progress"}
                                         /\ Entries(existing_tickets, issue.key) = 0
                                      THEN Append(existing_tickets, TicketRecord)
                                      ELSE existing_tickets]_vars

\* a created ticket that is Closed is in new_tickets, and a ticket that was
\* there before with status Closed is in neither list
C17_Witness ==
    /\ pc = "done"
    /\ errors = <<>>
    /\ returned = <<[key |-> 1, created |-> TRUE], [key |-> 2, created |-> FALSE]>>
    /\ new_tickets = <<[jira_id |-> 1, status |-> "Closed"]>>
    /\ existing_tickets = <<>>

\* C17 as stated: the record is added to new_tickets if and only if created is
\* true; when created is false it is added to existing_tickets only if the
\* status is an opened one, and a ticket with any other status is in neither
\* list.
C17_PlacementAsStated ==
    [][RecordStep =>
          /\ created <=> new_tickets' = Append(new_tickets, TicketRecord)
          /\ (~created /\ existing_tickets' # existing_tickets) =>
                 issue.status \in JIRA_OPENED_STATUSES
          /\ (~created /\ issue.status \notin JIRA_OPENED_STATUSES) =>
                 /\ Entries(new_tickets', issue.key) = 0
                 /\ Entries(existing_tickets', issue.key) = 0]_vars

\* the place of a step among the steps of one finding
OpRank(op) ==
    CASE op = "connect" -> 0
      [] op = "create_issue" -> 1
      [] op = "add_comment_to_issue" -> 2
      [] op = "add_issues_to_epic" -> 3
      [] op = "record" -> 4

\* the position in findings of the finding of a call
PositionOf(call) == CHOOSE f \in 1..Len(findings) : findings[f].title = call.finding

\* the number of calls of the operation for the current finding
CallCount(op) ==
    Cardinality({c \in 1..Len(calls) :
                    calls[c].op = op /\ calls[c].finding = findings[idx].title})

\* the calls so far are grouped by finding, in the order of findings, and
\* those of one finding are create_issue, the comments in list order,
\* add_issues_to_epic, the record
CallsInOrder ==
    \A j \in 1..Len(calls) :
        /\ calls[j].op = "connect" <=> j = 1
        /\ calls[j].op = "create_issue" =>
              \A i \in 2..(j - 1) : PositionOf(calls[i]) < PositionOf(calls[j])
        /\ calls[j].op \in {"add_comment_to_issue", "add_issues_to_epic", "record"} =>
              /\ calls[j - 1].finding = calls[j].finding
              /\ OpRank(calls[j - 1].op) <= OpRank(calls[j].op)
              /\ OpRank(calls[j - 1].op) = OpRank(calls[j].op) =>
                    calls[j].op = "add_comment_to_issue"
        /\ calls[j].op = "add_comment_to_issue" =>
              LET comments_ == findings[PositionOf(calls[j])].comments
                  before == {i \in 1..(j - 1) : /\ calls[i].finding = calls[j].finding
                                                 /\ calls[i].op = calls[j].op}
              IN  calls[j].arg = comments_[Cardinality(before) + 1]

\* a comment or an epic link is for a created ticket; when the comments of a
\* finding are through each pending one was attached, and when its record is
\* made the epic link was called if it is due
CallsAsDue ==
    /\ (/\ Len(calls') > Len(calls)
        /\ calls'[Len(calls')].op \in {"add_comment_to_issue", "add_issues_to_epic"})
           => created
    /\ (pc = "add_comment" /\ pc' = "link_epic") =>
           CallCount("add_comment_to_issue") =
               IF created /\ findings[idx].has_comments
               THEN Len(findings[idx].comments) ELSE 0
    /\ RecordStep =>
           CallCount("add_issues_to_epic") =
               IF created /\ separate_epic_linkage THEN 1 ELSE 0

\* C18: for each finding the calls are create_issue, add_comment_to_issue once
\* per pending comment in list order, add_issues_to_epic, then the record;
\* comments and the epic link are for created tickets only, and the calls of a
\* finding end before those of the next one begin.
C18_StepOrder ==
    /\ []CallsInOrder
    /\ [][CallsAsDue]_vars

\* a created ticket gets its two comments, the epic link and the record, and a
\* ticket that was there gets the record alone
C18_Witness ==
    /\ pc = "done"
    /\ \E i \in 1..Len(calls) :
          /\ i + 4 <= Len(calls)
          /\ [k \in 1..5 |-> calls[i + k - 1].op] =
                <<"create_issue", "add_comment_to_issue", "add_comment_to_issue",
                  "add_issues_to_epic", "record">>
    /\ \E j \in 1..Len(calls) :
          /\ j + 1 <= Len(calls)
          /\ calls[j].op = "create_issue"
          /\ calls[j + 1].op = "record"
          /\ findings[PositionOf(calls[j])].comments # <<>>

\* after add_issues_to_epic the run is at the record with no Error added, and
\* the record of a ticket whose link raised is made as any other
EpicFailureIgnored ==
    /\ pc = "link_epic" =>
           /\ pc' = "record"
           /\ errors' = errors
           /\ new_tickets' = new_tickets
    /\ (RecordStep /\ [finding |-> idx, raised |-> TRUE] \in epic_calls) =>
           /\ errors' = errors
           /\ Entries(new_tickets', issue.key) = 1

\* C19: add_issues_to_epic raising for a created ticket changes nothing of what
\* follows: the run goes on to the record, no Error is appended for the
\* finding and the ticket is recorded in new_tickets as it is when the link
\* succeeds.
C19_EpicFailureNotFatal ==
    [][EpicFailureIgnored]_vars

\* the link of the one finding raised; its ticket is recorded and no Error is
C19_Witness ==
    /\ pc = "done"
    /\ epic_calls = {[finding |-> 1, raised |-> TRUE]}
    /\ errors = <<>>
    /\ Len(new_tickets) = 1

(***************************************************************************)
(* SpecRoute: report_multi up to the prepared findings, reporter.py:64-245: *)
(* the targets, the pattern-keyed mappings, and for every finding the      *)
(* filter, the dynamic labels and fields, the target and the priority.     *)
(*                                                                         *)
(* A pattern is a key of dynamic_jira, dynamic_labels or dynamic_fields:   *)
(* a regular expression, kept as whether re.compile accepts it and which   *)
(* endpoint raws it matches from their start.  pattern.match raises on a   *)
(* raw that is no string.                                                  *)
(***************************************************************************)
Raws == {"a", "b"}
NotAString == "<not a string>"

Patterns ==
    {[compiles |-> FALSE, matches |-> {}]} \cup
    {[compiles |-> TRUE, matches |-> ms] : ms \in (SUBSET Raws) \ {{}}}

SeqsUpTo(S, n) == UNION {[1..k -> S] : k \in 0..n}

\* dict.update
Update(mapping, other) ==
    [key \in DOMAIN mapping \cup DOMAIN other |->
        IF key \in DOMAIN other THEN other[key] ELSE mapping[key]]

MaxOf(S) == CHOOSE x \in S : \A y \in S : y <= x

\* reporter.py:146, 153, 162 inside their try statements: a match that raises
\* is logged and counts as no match
Match(pattern, raw) == raw # NotAString /\ raw \in pattern.matches

\* reporter.py:114-118, 122-126: the compiled rules; the one try statement
\* around the loop ends the loop at the first key that does not compile
RECURSIVE CompiledRules(_)
CompiledRules(rules) ==
    IF rules = <<>> \/ ~Head(rules).pattern.compiles THEN <<>>
    ELSE <<Head(rules)>> \o CompiledRules(Tail(rules))

\* reporter.py:144-149 (151-156): the values of the rules matching one endpoint
RECURSIVE MatchingValues(_, _)
MatchingValues(mapping, raw) ==
    IF mapping = <<>> THEN <<>>
    ELSE (IF Match(Head(mapping).pattern, raw) THEN <<Head(mapping).value>> ELSE <<>>)
             \o MatchingValues(Tail(mapping), raw)

\* reporter.py:142-156: over the endpoints, in their order
RECURSIVE DynamicValues(_, _)
DynamicValues(mapping, endpoints) ==
    IF endpoints = <<>> THEN <<>>
    ELSE MatchingValues(mapping, Head(endpoints))
             \o DynamicValues(mapping, Tail(endpoints))

\* reporter.py:158-165: the target after one endpoint; wrappers_[1] is wrappers[None]
RouteEndpoint_FirstMatch(dynamic_wrapper, raw, wrappers_) ==
    LET matching == {w \in 2..Len(wrappers_) : Match(wrappers_[w].pattern, raw)}
    IN  IF matching = {} THEN dynamic_wrapper ELSE CHOOSE w \in matching : \A v \in matching : w <= v
RouteEndpoint(dynamic_wrapper, raw, wrappers_) ==
    LET matching == {w \in 2..Len(wrappers_) : Match(wrappers_[w].pattern, raw)}
    IN  IF matching = {} THEN dynamic_wrapper ELSE MaxOf(matching)

\* reporter.py:140-165: the target of a finding
RECURSIVE Route(_, _, _)
Route(dynamic_wrapper, endpoints, wrappers_) ==
    IF endpoints = <<>> THEN dynamic_wrapper
    ELSE Route(RouteEndpoint(dynamic_wrapper, Head(endpoints), wrappers_),
               Tail(endpoints), wrappers_)

\* reporter.py:168-171 (434-436)
MapPriority_BySeverity(table, priority_mapping, severity) ==
    IF severity \in DOMAIN priority_mapping
    THEN priority_mapping[severity] ELSE table[severity]
MapPriority(table, priority_mapping, severity) ==
    LET priority == table[severity] IN
    IF DOMAIN priority_mapping # {} /\ priority \in DOMAIN priority_mapping
    THEN priority_mapping[priority] ELSE priority

(***************************************************************************)
(* The configurations and findings of SpecRoute.  One of the mappings, or  *)
(* the priority mapping of one target, ranges over all its values while    *)
(* the others range over a few.                                            *)
(***************************************************************************)
Rules(patterns) == [i \in 1..Len(patterns) |-> [pattern |-> patterns[i], value |-> i]]
RuleLists == {Rules(patterns) : patterns \in SeqsUpTo(Patterns, MaxRules)}
FewRuleLists == {<<>>, Rules(<<[compiles |-> TRUE, matches |-> {"a"}]>>)}

\* dynamic_jira: the value of a rule is the configuration of its target
JiraRules(rules, target) ==
    [i \in 1..Len(rules) |-> [pattern |-> rules[i].pattern, value |-> target]]

MapKeys == {"Critical", "High", "Major"}
MapValues == {"High", "Blocker"}
Mappings == UNION {[keys -> MapValues] : keys \in SUBSET MapKeys}

\* what legacy.prepare_jira_mapping may yield for a tracker
PreparedMappings == {EmptyMapping, [key \in {"Major"} |-> "High"]}

Targets ==
    {[valid |-> v, has_custom |-> TRUE, custom_mapping |-> cm, prepared |-> EmptyMapping] :
        v \in BOOLEAN, cm \in Mappings} \cup
    {[valid |-> v, has_custom |-> FALSE, custom_mapping |-> EmptyMapping, prepared |-> pm] :
        v \in BOOLEAN, pm \in PreparedMappings}
FewTargets ==
    {NoTarget, [NoTarget EXCEPT !.valid = FALSE],
     [NoTarget EXCEPT !.has_custom = TRUE,
                      !.custom_mapping = [key \in {"Major"} |-> "Blocker"]]}

SeverityLabels == {SEVERITIES[i] : i \in 1..Len(SEVERITIES)} \cup {"<missing>", "Unlisted"}

Item(kind, flagged, endpoints, severity) ==
    [kind |-> kind, flagged |-> flagged, endpoints |-> endpoints, severity |-> severity]

\* the findings ahead of the last one
FewItemLists ==
    {<<>>,
     <<Item("DastFinding", TRUE, <<"a">>, "High")>>,
     <<Item("Other", FALSE, <<"a">>, "High")>>,
     <<Item("SastFinding", FALSE, <<"a">>, "Low")>>}

EndpointLists == SeqsUpTo(Raws \cup {NotAString}, MaxEndpoints)

Config(dynamic_jira, dynamic_labels, dynamic_fields, target) ==
    [dynamic_jira |-> dynamic_jira, dynamic_labels |-> dynamic_labels,
     dynamic_fields |-> dynamic_fields, target |-> target]

RoutingConfigs ==
    {Config(JiraRules(rules, NoTarget), labels, fields, NoTarget) :
        rules \in RuleLists, labels \in FewRuleLists, fields \in FewRuleLists}
    \cup {Config(JiraRules(rules, NoTarget), labels, fields, NoTarget) :
        rules \in FewRuleLists, labels \in RuleLists, fields \in FewRuleLists}
    \cup {Config(JiraRules(rules, NoTarget), labels, fields, NoTarget) :
        rules \in FewRuleLists, labels \in FewRuleLists, fields \in RuleLists}

MappingConfigs ==
    {Config(JiraRules(rules, alternate), <<>>, <<>>, target) :
        rules \in FewRuleLists, alternate \in FewTargets, target \in Targets}
    \cup {Config(JiraRules(rules, alternate), <<>>, <<>>, target) :
        rules \in FewRuleLists \ {<<>>}, alternate \in Targets, target \in FewTargets}

InitRoute ==
    /\ pc = "wrappers"
    /\ exception = ""
    /\ ChunkUnused
    /\ SubmitIdle
    /\ \/ /\ config \in RoutingConfigs
          /\ \E items \in FewItemLists, endpoints \in EndpointLists :
                context_findings =
                    Append(items, Item("DastFinding", FALSE, endpoints, "High"))
       \/ /\ config \in MappingConfigs
          /\ \E items \in FewItemLists, endpoints \in {<<>>, <<"a">>},
                severity \in SeverityLabels :
                context_findings =
                    Append(items, Item("DastFinding", FALSE, endpoints, severity))
    /\ item_index = 0
    /\ wrappers = <<>>
    /\ dynamic_label_mapping = <<>>
    /\ dynamic_field_mapping = <<>>
    /\ JIRA_SEVERITY_MAPPING = DefaultSeverityMapping
    /\ UtilsIdle

\* reporter.py:72-81 (389-396): wrapper.valid of every target, the default one
\* and those of dynamic_jira
AllValid_DefaultOnly(wrappers_config) == wrappers_config[1].config.valid
AllValid(wrappers_config) ==
    \A i \in 1..Len(wrappers_config) : wrappers_config[i].config.valid

\* reporter.py:131-136, 241-243 (426-432, 542-544): a finding that is left out
Skipped_UnsupportedOnly(item_) == item_.kind \notin {"DastFinding", "SastFinding"}
Skipped(item_) ==
    item_.flagged \/ item_.kind \notin {"DastFinding", "SastFinding"}

submitRest == <<separate_epic_linkage, idx, issue, created, comment_index, new_tickets,
                existing_tickets, errors, attempted, returned, failing, epic_calls,
                calls>>

\* reporter.py:66-110: the targets; wrappers[1] is the default target
BuildWrappers ==
    /\ pc = "wrappers"
    /\ LET rules == config.dynamic_jira
           wrappers_config ==
               <<[pattern |-> [compiles |-> TRUE, matches |-> {}], config |-> config.target]>>
               \o [i \in 1..Len(rules) |->
                       [pattern |-> rules[i].pattern, config |-> rules[i].value]]
       IN  IF \E i \in 1..Len(rules) : ~rules[i].pattern.compiles
           THEN \* reporter.py:69: re.compile raises
                /\ pc' = "raised"
                /\ exception' = "re.error"
                /\ UNCHANGED <<wrappers, JIRA_SEVERITY_MAPPING, meta>>
           ELSE IF ~AllValid(wrappers_config)
           THEN \* reporter.py:81-88
                LET default_mapping ==
                        Update(JIRA_SEVERITY_MAPPING,
                               IF config.target.has_custom
                               THEN config.target.custom_mapping ELSE EmptyMapping)
                IN  /\ JIRA_SEVERITY_MAPPING' = default_mapping
                    /\ meta' = set_meta(meta, "mapping", default_mapping)
                    /\ pc' = "raised"
                    /\ exception' = "RuntimeError"
                    /\ UNCHANGED wrappers
           ELSE /\ wrappers' =
                    [i \in 1..Len(wrappers_config) |->
                        LET wrapper_config == wrappers_config[i].config
                            priority_mapping ==
                                IF wrapper_config.has_custom
                                THEN wrapper_config.custom_mapping
                                ELSE wrapper_config.prepared
                        IN  [pattern |-> wrappers_config[i].pattern,
                             config |-> wrapper_config,
                             priority_mapping |-> priority_mapping,
                             mapping_meta |-> priority_mapping]]
                /\ meta' = set_meta(meta, "wrapper", 1)
                /\ pc' = "labels"
                /\ UNCHANGED <<exception, JIRA_SEVERITY_MAPPING>>
    /\ UNCHANGED <<config, context_findings, item_index, dynamic_label_mapping,
                   dynamic_field_mapping, findings>>
    /\ UNCHANGED <<chunkVars, submitRest>>
    /\ UNCHANGED utilsVars

\* reporter.py:112-118
CompileLabels ==
    /\ pc = "labels"
    /\ dynamic_label_mapping' = CompiledRules(config.dynamic_labels)
    /\ pc' = "fields"
    /\ UNCHANGED <<config, context_findings, item_index, wrappers,
                   dynamic_field_mapping, JIRA_SEVERITY_MAPPING, exception, findings, meta>>
    /\ UNCHANGED <<chunkVars, submitRest>>
    /\ UNCHANGED utilsVars

\* reporter.py:120-128
CompileFields ==
    /\ pc = "fields"
    /\ dynamic_field_mapping' = CompiledRules(config.dynamic_fields)
    /\ item_index' = 1
    /\ pc' = "items"
    /\ UNCHANGED <<config, context_findings, wrappers, dynamic_label_mapping,
                   JIRA_SEVERITY_MAPPING, exception, findings, meta>>
    /\ UNCHANGED <<chunkVars, submitRest>>
    /\ UNCHANGED utilsVars

\* reporter.py:129-243: one finding of the context
PrepareItem ==
    /\ pc = "items"
    /\ item_index <= Len(context_findings)
    /\ LET item_ == context_findings[item_index]
           severity == IF item_.severity = "<missing>"
                       THEN SEVERITIES[Len(SEVERITIES)] ELSE item_.severity
           dynamic_wrapper == Route(1, item_.endpoints, wrappers)
       IN  IF Skipped(item_)
           THEN \* reporter.py:131-134, 241-243
                /\ item_index' = item_index + 1
                /\ UNCHANGED <<pc, exception, wrappers, findings>>
           ELSE IF severity \notin DOMAIN JIRA_SEVERITY_MAPPING
           THEN \* reporter.py:168: KeyError
                /\ pc' = "raised"
                /\ exception' = "KeyError"
                /\ UNCHANGED <<item_index, wrappers, findings>>
           ELSE LET priority == MapPriority(JIRA_SEVERITY_MAPPING,
                                            wrappers[dynamic_wrapper].priority_mapping,
                                            severity)
                IN  /\ wrappers' =
                         [wrappers EXCEPT ![dynamic_wrapper].mapping_meta =
                              Update(@, [key \in {severity} |-> priority])]
                    /\ findings' = Append(findings,
                         [title |-> item_index,
                          priority |-> priority,
                          severity |-> severity,
                          dynamic_labels |->
                              DynamicValues(dynamic_label_mapping, item_.endpoints),
                          dynamic_fields |->
                              DynamicValues(dynamic_field_mapping, item_.endpoints),
                          wrapper |-> dynamic_wrapper])
                    /\ item_index' = item_index + 1
                    /\ UNCHANGED <<pc, exception>>
    /\ UNCHANGED <<config, context_findings, dynamic_label_mapping,
                   dynamic_field_mapping, JIRA_SEVERITY_MAPPING, meta>>
    /\ UNCHANGED <<chunkVars, submitRest>>
    /\ UNCHANGED utilsVars

\* reporter.py:245
SetMappingMeta ==
    /\ pc = "items"
    /\ item_index > Len(context_findings)
    /\ meta' = set_meta(meta, "mapping", wrappers[1].mapping_meta)
    /\ pc' = "routed"
    /\ UNCHANGED <<routeVars, exception, findings>>
    /\ UNCHANGED <<chunkVars, submitRest>>
    /\ UNCHANGED utilsVars

NextRoute ==
    \/ BuildWrappers
    \/ CompileLabels
    \/ CompileFields
    \/ PrepareItem
    \/ SetMappingMeta

SpecRoute == InitRoute /\ [][NextRoute]_vars

\* the compiled rules of dynamic_jira that match the raw, by position
MatchingRules(raw) ==
    {r \in 1..Len(config.dynamic_jira) : Match(config.dynamic_jira[r].pattern, raw)}

\* the positions of the endpoints of a finding that some dynamic_jira rule matches
MatchedEndpoints(endpoints) ==
    {e \in 1..Len(endpoints) : MatchingRules(endpoints[e]) # {}}

\* the finding prepared from the given finding of the context is in findings
Prepared(i) == \E f \in 1..Len(findings) : findings[f].title = i

\* C8 (as amended): the target of a finding is the one of the last rule, in
\* mapping order, that matches the last of the finding's endpoints matched by
\* any rule; a finding that no rule matches goes to the default target.
C8_LastMatchOfLastEndpoint ==
    pc = "routed" =>
        \A f \in 1..Len(findings) :
            LET endpoints == context_findings[findings[f].title].endpoints
                matched == MatchedEndpoints(endpoints)
            IN  findings[f].wrapper =
                    IF matched = {} THEN 1
                    ELSE 1 + MaxOf(MatchingRules(endpoints[MaxOf(matched)]))

\* two endpoints matched by different rules: the first rule's target is used
\* although the second rule matches the first endpoint
C8_Witness ==
    /\ pc = "routed"
    /\ \E f \in 1..Len(findings) :
          LET endpoints == context_findings[findings[f].title].endpoints IN
          /\ Len(endpoints) = 2
          /\ Len(config.dynamic_jira) = 2
          /\ MatchingRules(endpoints[1]) = {2}
          /\ MatchingRules(endpoints[2]) = {1}
          /\ findings[f].wrapper = 2

\* C8 as stated: the target is the one of the last rule, in mapping order,
\* among the rules matching any endpoint, whatever the order of the endpoints
C8_LastMatchOfAnyEndpoint ==
    pc = "routed" =>
        \A f \in 1..Len(findings) :
            LET endpoints == context_findings[findings[f].title].endpoints
                matching == UNION {MatchingRules(endpoints[e]) : e \in 1..Len(endpoints)}
            IN  findings[f].wrapper = IF matching = {} THEN 1 ELSE 1 + MaxOf(matching)

\* the values of a prepared finding's dynamic labels or fields
Values(values) == {values[v] : v \in 1..Len(values)}

\* C9 as stated: a pattern that does not compile, or whose match raises, is
\* skipped alone: the run does not raise for it, the other rules of its mapping
\* are applied and every eligible finding is prepared for submission
C9_RuleIsolation ==
    /\ exception # "re.error"
    /\ pc = "routed" =>
         /\ \A i \in 1..Len(context_findings) :
              (/\ ~context_findings[i].flagged
               /\ context_findings[i].kind \in {"DastFinding", "SastFinding"})
                  => Prepared(i)
         /\ \A f \in 1..Len(findings) :
              LET endpoints == context_findings[findings[f].title].endpoints IN
              \A e \in 1..Len(endpoints) :
                  /\ \A r \in 1..Len(config.dynamic_labels) :
                        Match(config.dynamic_labels[r].pattern, endpoints[e])
                            => r \in Values(findings[f].dynamic_labels)
                  /\ \A r \in 1..Len(config.dynamic_fields) :
                        Match(config.dynamic_fields[r].pattern, endpoints[e])
                            => r \in Values(findings[f].dynamic_fields)

\* the configuration of the target a prepared finding goes to
TargetOf(f) == wrappers[findings[f].wrapper].config

\* C10 (as amended): for a target with a custom mapping, with d the default
\* table's value for the finding's severity, the priority is the custom
\* mapping's value for d when d is one of its keys, and d otherwise.
C10_CustomMappingByDefaultPriority ==
    pc = "routed" =>
        \A f \in 1..Len(findings) :
            TargetOf(f).has_custom =>
                LET d == JIRA_SEVERITY_MAPPING[findings[f].severity]
                    custom_mapping == TargetOf(f).custom_mapping
                IN  findings[f].priority =
                        IF d \in DOMAIN custom_mapping THEN custom_mapping[d] ELSE d

\* severity High, default priority Major: the custom mapping has both keys and
\* its value for Major is used, here on an alternate target
C10_Witness ==
    /\ pc = "routed"
    /\ \E g \in 1..Len(findings) :
          /\ findings[g].wrapper = 2
          /\ findings[g].severity = "High"
          /\ TargetOf(g).has_custom
          /\ {"High", "Major"} \subseteq DOMAIN TargetOf(g).custom_mapping
          /\ TargetOf(g).custom_mapping["High"] # TargetOf(g).custom_mapping["Major"]
          /\ findings[g].priority = TargetOf(g).custom_mapping["Major"]

\* C10 as stated: the custom mapping is looked up by the finding's severity
C10_CustomMappingBySeverity ==
    pc = "routed" =>
        \A f \in 1..Len(findings) :
            TargetOf(f).has_custom =>
                LET severity == findings[f].severity
                    custom_mapping == TargetOf(f).custom_mapping
                IN  findings[f].priority =
                        IF severity \in DOMAIN custom_mapping
                        THEN custom_mapping[severity]
                        ELSE JIRA_SEVERITY_MAPPING[severity]

\* the finding of the context is eligible: not flagged and of a supported type
Eligible(i) ==
    /\ ~context_findings[i].flagged
    /\ context_findings[i].kind \in {"DastFinding", "SastFinding"}

\* C11 as stated: a finding whose severity is missing, or has no entry in the
\* severity-to-priority table, is mapped as the least severe entry of
\* SEVERITIES is; the run does not raise and every eligible finding is
\* prepared for submission.
C11_UnmappedSeverityFallback ==
    /\ exception # "KeyError"
    /\ pc = "routed" =>
         /\ \A i \in 1..Len(context_findings) : Eligible(i) => Prepared(i)
         /\ \A f \in 1..Len(findings) :
              LET severity == context_findings[findings[f].title].severity IN
              (severity = "<missing>" \/ severity \notin DOMAIN JIRA_SEVERITY_MAPPING) =>
                  findings[f].priority =
                      MapPriority(JIRA_SEVERITY_MAPPING,
                                  wrappers[findings[f].wrapper].priority_mapping,
                                  SEVERITIES[Len(SEVERITIES)])

\* C12 as stated: once the findings are prepared, the "mapping" metadata maps
\* the severity of every finding to the priority it is submitted with, the
\* findings routed to an alternate target included.
C12_RealizedMappingRecorded ==
    pc = "routed" =>
        /\ "mapping" \in DOMAIN meta
        /\ \A f \in 1..Len(findings) :
              /\ findings[f].severity \in DOMAIN meta["mapping"]
              /\ meta["mapping"][findings[f].severity] = findings[f].priority

(***************************************************************************)
(* SpecRun: a whole run, from validate_config through the targets, the     *)
(* prepared findings and the sort of reporter.py:284-288 (580-584) to the  *)
(* submission loop.  A finding of the context has a tool and a title here, *)
(* both kept as numbers in their lexicographic order; tool 0 is a finding  *)
(* with no tool.  A prepared finding refers to its finding of the context  *)
(* (finding["raw"]) by position.  Descriptions are left out: the comments  *)
(* that reporter.py:205-220 and 247-282 give a finding are none, or one    *)
(* for one finding of the run.                                             *)
(***************************************************************************)
RunItem(kind, flagged, endpoints, severity, tool, title) ==
    [kind |-> kind, flagged |-> flagged, endpoints |-> endpoints,
     severity |-> severity, tool |-> tool, title |-> title]

RunItems ==
    {RunItem("DastFinding", FALSE, <<>>, "Low", 1, 3),
     RunItem("DastFinding", FALSE, <<"a">>, "Critical", 1, 1),
     RunItem("SastFinding", FALSE, <<>>, "Critical", 1, 2),
     RunItem("DastFinding", FALSE, <<>>, "Critical", 2, 1),
     RunItem("DastFinding", FALSE, <<>>, "<missing>", 0, 1),
     RunItem("DastFinding", TRUE, <<"a">>, "Critical", 1, 1),
     RunItem("Other", FALSE, <<>>, "Critical", 1, 1)}

\* the findings of spec 8: (Low, z), (Critical, a), (Critical, b)
SortExample ==
    <<RunItem("DastFinding", FALSE, <<>>, "Low", 1, 3),
      RunItem("DastFinding", FALSE, <<"a">>, "Critical", 1, 1),
      RunItem("SastFinding", FALSE, <<>>, "Critical", 1, 2)>>

Permutations3 == {p \in [1..3 -> 1..3] : {p[1], p[2], p[3]} = 1..3}

\* up to two findings
RunItemLists ==
    {<<>>} \cup {<<x>> : x \in RunItems} \cup {<<x, y>> : x \in RunItems, y \in RunItems}

\* the three findings of the example in every order
SortExamples == {[i \in 1..3 |-> SortExample[p[i]]] : p \in Permutations3}

\* reporter.py:747: the options validate_config requires
RequiredOptions == {"url", "username", "password", "project"}

\* a configuration with the options that are set
RunConfig(config_, options) ==
    [dynamic_jira |-> config_.dynamic_jira, dynamic_labels |-> config_.dynamic_labels,
     dynamic_fields |-> config_.dynamic_fields, target |-> config_.target,
     options |-> options]

RunConfigs ==
    {RunConfig(Config(JiraRules(rules, alternate), <<>>, <<>>, target), RequiredOptions) :
        rules \in FewRuleLists,
        alternate \in {NoTarget, [NoTarget EXCEPT !.valid = FALSE]},
        target \in {NoTarget, [NoTarget EXCEPT !.valid = FALSE]}}
    \cup {RunConfig(Config(<<>>, <<>>, <<>>, NoTarget), RequiredOptions \ {option}) :
             option \in RequiredOptions}

InitRun ==
    /\ pc = "validate"
    /\ exception = ""
    /\ ChunkUnused
    /\ SubmitIdle
    /\ \/ /\ config \in RunConfigs
          /\ context_findings \in RunItemLists
       \/ /\ config = RunConfig(Config(<<>>, <<>>, <<>>, NoTarget), RequiredOptions)
          /\ context_findings \in SortExamples
    /\ item_index = 0
    /\ wrappers = <<>>
    /\ dynamic_label_mapping = <<>>
    /\ dynamic_field_mapping = <<>>
    /\ JIRA_SEVERITY_MAPPING = DefaultSeverityMapping
    /\ UtilsIdle

\* reporter.py:746-754
validate_config(config_) ==
    LET not_set == {option \in RequiredOptions : option \notin config_.options}
    IN  IF not_set # {} THEN "ValueError" ELSE ""

ValidateConfig ==
    /\ pc = "validate"
    /\ exception' = validate_config(config)
    /\ pc' = IF exception' # "" THEN "raised" ELSE "wrappers"
    /\ UNCHANGED <<chunkVars, submitVars, routeVars>>
    /\ UNCHANGED utilsVars

\* SEVERITIES.index(severity)
SeverityIndex(severity) == CHOOSE i \in 1..Len(SEVERITIES) : SEVERITIES[i] = severity

\* reporter.py:284-288 (580-584): the key of a prepared finding
SortKey_TitleFirst(raw) ==
    <<SeverityIndex(IF raw.severity = "<missing>" THEN SEVERITIES[Len(SEVERITIES)]
                    ELSE raw.severity),
      raw.title, raw.tool>>
SortKey(raw) ==
    <<SeverityIndex(IF raw.severity = "<missing>" THEN SEVERITIES[Len(SEVERITIES)]
                    ELSE raw.severity),
      raw.tool, raw.title>>

\* the order of tuples
KeyLess(a, b) ==
    \/ a[1] < b[1]
    \/ a[1] = b[1] /\ a[2] < b[2]
    \/ a[1] = b[1] /\ a[2] = b[2] /\ a[3] < b[3]

\* list.sort is stable: a finding goes behind those of the same key
RECURSIVE InsertSorted(_, _, _)
InsertSorted(sorted, finding, raws) ==
    IF sorted = <<>> THEN <<finding>>
    ELSE IF KeyLess(SortKey(raws[finding.title]), SortKey(raws[Head(sorted).title]))
    THEN <<finding>> \o sorted
    ELSE <<Head(sorted)>> \o InsertSorted(Tail(sorted), finding, raws)

RECURSIVE Sorted(_, _)
Sorted(findings_, raws) ==
    IF findings_ = <<>> THEN <<>>
    ELSE InsertSorted(Sorted(SubSeq(findings_, 1, Len(findings_) - 1), raws),
                      findings_[Len(findings_)], raws)

\* a prepared finding with its comments
WithComments(finding, n) ==
    [title |-> finding.title, priority |-> finding.priority,
     severity |-> finding.severity, dynamic_labels |-> finding.dynamic_labels,
     dynamic_fields |-> finding.dynamic_fields, wrapper |-> finding.wrapper,
     has_comments |-> n > 0, comments |-> [c \in 1..n |-> c]]

\* reporter.py:247-288 (546-584): the comments of the findings and the sort
SortFindings ==
    /\ pc = "routed"
    /\ IF \E f \in 1..Len(findings) :
             \A i \in 1..Len(SEVERITIES) : SEVERITIES[i] # findings[f].severity
       THEN \* SEVERITIES.index raises
            /\ pc' = "raised"
            /\ exception' = "ValueError"
            /\ UNCHANGED findings
       ELSE /\ \E ns \in {n \in [1..Len(findings) -> 0..1] :
                               Cardinality({f \in DOMAIN n : n[f] = 1}) <= 1} :
                  findings' = Sorted([f \in 1..Len(findings) |->
                                          WithComments(findings[f], ns[f])],
                                     context_findings)
            /\ pc' = "connect"
            /\ UNCHANGED exception
    /\ UNCHANGED <<chunkVars, submitRest, routeVars, meta>>
    /\ UNCHANGED utilsVars

NextRun ==
    \/ ValidateConfig
    \/ BuildWrappers
    \/ CompileLabels
    \/ CompileFields
    \/ PrepareItem
    \/ SetMappingMeta
    \/ SortFindings
    \/ Connect
    \/ CreateIssue
    \/ AddComment
    \/ LinkEpic
    \/ RecordTicket
    \/ HandleError
    \/ SetMeta

SpecRun == InitRun /\ [][NextRun]_vars

\* the findings of the context create_issue was called for, in call order
CreateCalls ==
    LET creates == SelectSeq(calls, LAMBDA c : c.op = "create_issue")
    IN  [c \in 1..Len(creates) |-> creates[c].finding]

\* the key of spec 4.5 of a finding of the context: the rank of its severity,
\* most severe first and the least severe when it has none, its tool, its title
KeyOf(i) ==
    LET raw == context_findings[i]
        severity == IF raw.severity = "<missing>" THEN "Info" ELSE raw.severity
    IN  <<CHOOSE r \in 1..5 :
              <<"Critical", "High", "Medium", "Low", "Info">>[r] = severity,
          raw.tool, raw.title>>

\* C13: the create_issue calls are in non-decreasing order of the key
\* (severity rank, tool, title), whatever the order of the input, and a run
\* that ends has called create_issue once for every eligible finding.
C13_SubmissionOrder ==
    /\ \A i, j \in 1..Len(CreateCalls) :
          i < j => ~KeyLess(KeyOf(CreateCalls[j]), KeyOf(CreateCalls[i]))
    /\ pc = "done" =>
          /\ {CreateCalls[c] : c \in 1..Len(CreateCalls)} =
                {i \in 1..Len(context_findings) : Eligible(i)}
          /\ Len(CreateCalls) =
                Cardinality({i \in 1..Len(context_findings) : Eligible(i)})

\* the example of spec 8: (Low, z), (Critical, a), (Critical, b) are submitted
\* as Critical/a, Critical/b, Low/z
C13_Witness ==
    /\ pc = "done"
    /\ context_findings = SortExample
    /\ CreateCalls = <<2, 3, 1>>

\* C14: when a target of the configuration is invalid, the default one or one
\* of dynamic_jira, or a required option is not set, the run ends raising
\* before any connect, create_issue, add_comment_to_issue or
\* add_issues_to_epic call.
C14_FatalConfigurationFirst ==
    LET invalid == \/ ~config.target.valid
                   \/ \E r \in 1..Len(config.dynamic_jira) :
                          ~config.dynamic_jira[r].value.valid
        not_set == config.options # {"url", "username", "password", "project"}
    IN  (invalid \/ not_set) =>
            /\ calls = <<>>
            /\ pc \in {"validate", "wrappers", "raised"}
            /\ pc = "raised" => exception \in {"ValueError", "RuntimeError"}

\* the default target is valid and the one of a dynamic_jira rule is not: the
\* run raises although there is a finding to submit
C14_Witness ==
    /\ pc = "raised"
    /\ exception = "RuntimeError"
    /\ calls = <<>>
    /\ config.target.valid
    /\ Len(config.dynamic_jira) = 1
    /\ ~config.dynamic_jira[1].value.valid
    /\ \E i \in 1..Len(context_findings) : Eligible(i)

\* C20: a finding flagged information_finding, false_positive_finding or
\* excluded_finding, or of an unsupported type, has no create_issue,
\* add_comment_to_issue or other call, no ticket record and no Error, and the
\* recorded mapping has no entry from it.
C20_FilteredNeverTicketed ==
    /\ \A i \in 1..Len(context_findings) :
          (\/ context_findings[i].flagged
           \/ context_findings[i].kind \notin {"DastFinding", "SastFinding"}) =>
              /\ \A c \in 1..Len(calls) : calls[c].finding # i
              /\ \A e \in 1..Len(errors) : errors[e].title # i
              /\ \A f \in 1..Len(findings) : findings[f].title # i
    /\ (wrappers # <<>> /\ "mapping" \in DOMAIN meta) =>
          \A severity \in DOMAIN meta["mapping"] :
              \/ severity \in DOMAIN wrappers[1].priority_mapping
              \/ \E i \in 1..Len(context_findings) :
                    /\ ~context_findings[i].flagged
                    /\ context_findings[i].kind \in {"DastFinding", "SastFinding"}
                    /\ severity = IF context_findings[i].severity = "<missing>"
                                  THEN "Info" ELSE context_findings[i].severity

\* a flagged finding of severity Critical ahead of a finding of severity Low
\* that is submitted: the run ends with the one create_issue call and the
\* mapping of Low alone
C20_Witness ==
    /\ pc = "done"
    /\ Len(context_findings) = 2
    /\ context_findings[1].flagged
    /\ context_findings[1].severity = "Critical"
    /\ CreateCalls = <<2>>
    /\ DOMAIN meta["mapping"] = {"Low"}
    /\ Len(new_tickets) = 1

(***************************************************************************)
(* SpecFalsePositives: utils.process_false_positives, utils.py:98-114.     *)
(* A line of the file and a hash code are texts: 0 is a whitespace         *)
(* character (a space, the newline readlines() keeps), any other number a  *)
(* character of a hash code.  A finding is an object with its hash code;   *)
(* the same object may be in the results more than once.                   *)
(***************************************************************************)
MaxLines == 2      \* lines of the false-positive file
MaxResults == 3    \* findings given to process_false_positives

HashCodes == {<<1>>, <<2>>}

\* blank, whitespace, a hash code bare or among whitespace, and a line that is
\* no hash code
FileLines ==
    {<<>>, <<0>>, <<1, 0>>, <<0, 1, 0>>, <<2, 0>>, <<2>>, <<1, 0, 2, 0>>}

ResultFindings == [id : 1..2, hash : HashCodes]

InitFalsePositives ==
    /\ pc = "process_false_positives"
    /\ exception = ""
    /\ ChunkUnused
    /\ SubmitIdle
    /\ RouteIdle
    /\ results \in SeqsUpTo(ResultFindings, MaxResults)
    /\ \/ false_positive_config = [exists |-> FALSE, lines |-> <<>>]
       \/ \E lines \in SeqsUpTo(FileLines, MaxLines) :
             false_positive_config = [exists |-> TRUE, lines |-> lines]
    /\ filtered = <<>>

\* str.strip()
RECURSIVE LeftStrip(_)
LeftStrip(line) ==
    IF line # <<>> /\ Head(line) = 0 THEN LeftStrip(Tail(line)) ELSE line

RECURSIVE RightStrip(_)
RightStrip(line) ==
    IF line # <<>> /\ line[Len(line)] = 0
    THEN RightStrip(SubSeq(line, 1, Len(line) - 1)) ELSE line

StripLine_Unstripped(line) == line
StripLine(line) == LeftStrip(RightStrip(line))

\* utils.py:99-104: the stripped lines that are not blank
RECURSIVE FalsePositives(_)
FalsePositives(lines) ==
    IF lines = <<>> THEN <<>>
    ELSE (IF StripLine(Head(lines)) # <<>> THEN <<StripLine(Head(lines))>> ELSE <<>>)
             \o FalsePositives(Tail(lines))

\* utils.py:113: results.pop(results.index(finding))
RECURSIVE PopFirst(_, _)
PopFirst(results_, finding) ==
    IF results_ = <<>> THEN <<>>
    ELSE IF Head(results_) = finding THEN Tail(results_)
    ELSE <<Head(results_)>> \o PopFirst(Tail(results_), finding)

\* utils.py:112-113
RECURSIVE PopAll(_, _)
PopAll(results_, to_remove) ==
    IF to_remove = <<>> THEN results_
    ELSE PopAll(PopFirst(results_, Head(to_remove)), Tail(to_remove))

\* utils.py:98-114
process_false_positives(results_, file) ==
    LET false_positives == IF file.exists THEN FalsePositives(file.lines) ELSE <<>>
        listed == {false_positives[i] : i \in 1..Len(false_positives)}
        to_remove == SelectSeq(results_, LAMBDA finding : finding.hash \in listed)
    IN  IF false_positives = <<>> THEN results_ ELSE PopAll(results_, to_remove)

ProcessFalsePositives ==
    /\ pc = "process_false_positives"
    /\ filtered' = process_false_positives(results, false_positive_config)
    /\ pc' = "filtered"
    /\ UNCHANGED <<results, false_positive_config, exception>>
    /\ UNCHANGED <<chunkVars, submitVars, routeVars>>

NextFalsePositives ==
    \/ ProcessFalsePositives

SpecFalsePositives == InitFalsePositives /\ [][NextFalsePositives]_vars

\* whitespace of the given length
Blank(n) == [i \in 1..n |-> 0]

\* the hash code is listed in the file: it is a line of it, whitespace around
\* it apart
Listed(hash) ==
    /\ false_positive_config.exists
    /\ \E l \in 1..Len(false_positive_config.lines) :
          LET line == false_positive_config.lines[l] IN
          \E before, after \in 0..Len(line) :
              line = Blank(before) \o hash \o Blank(after)

\* C15: process_false_positives returns the findings whose hash code is not
\* listed in the file, in their order, a hash code that several findings
\* share included; with no file, or no hash code listed in it, it returns
\* the findings as they are.
C15_FalsePositiveFilter ==
    pc = "filtered" =>
        /\ filtered = SelectSeq(results, LAMBDA finding : ~Listed(finding.hash))
        /\ (\A hash \in HashCodes : ~Listed(hash)) => filtered = results

\* two findings share a hash code listed among whitespace, behind a blank line;
\* a third finding between them stays
C15_Witness ==
    /\ pc = "filtered"
    /\ false_positive_config = [exists |-> TRUE, lines |-> <<<<0>>, <<0, 1, 0>>>>]
    /\ Len(results) = 3
    /\ results[1].hash = <<1>>
    /\ results[2].hash = <<2>>
    /\ results[3].hash = <<1>>
    /\ results[1] # results[3]
    /\ filtered = <<results[2]>>

(***************************************************************************)
(* SpecEngagement: the engagement reporter's report(),                     *)
(* engagement/reporter.py:44-60.  context_findings is self.context         *)
(* .findings, config is self.config, and calls has the create_issues call  *)
(* of the issues connector with its argument.                              *)
(***************************************************************************)
EngagementItem(title, text, severity, flagged) ==
    [title |-> title, description |-> text, severity |-> severity,
     flagged |-> flagged]

EngagementItems ==
    {EngagementItem(title, title, severity, flagged) :
        title \in 1..2, severity \in {"High", "<missing>"}, flagged \in BOOLEAN}

InitEngagement ==
    /\ pc = "report"
    /\ exception = ""
    /\ ChunkUnused
    /\ SubmitIdle
    /\ UtilsIdle
    /\ config \in [engagement_id : {"e1", "e2"}]
    /\ context_findings \in SeqsUpTo(EngagementItems, MaxFindings)
    /\ item_index = 0
    /\ wrappers = <<>>
    /\ dynamic_label_mapping = <<>>
    /\ dynamic_field_mapping = <<>>
    /\ JIRA_SEVERITY_MAPPING = DefaultSeverityMapping

\* dusty.tools.markdown.markdown_to_html
markdown_to_html(description_) == <<"html", description_>>

\* engagement/reporter.py:48-57: the payload of a finding
Issue(finding, config_) ==
    [title |-> finding.title,
     description |-> markdown_to_html(finding.description),
     severity |-> IF finding.severity = "<missing>"
                  THEN SEVERITIES[Len(SEVERITIES)] ELSE finding.severity,
     project |-> "None",
     asset |-> "None",
     type |-> "Vulnerability",
     engagement |-> config_.engagement_id,
     source_type |-> "security"]

\* engagement/reporter.py:46-58: a payload for every finding, in their order
EngagementIssues_Filtered(findings_, config_) ==
    LET kept == SelectSeq(findings_, LAMBDA finding : ~finding.flagged)
    IN  [i \in 1..Len(kept) |-> Issue(kept[i], config_)]
EngagementIssues(findings_, config_) ==
    [i \in 1..Len(findings_) |-> Issue(findings_[i], config_)]

\* engagement/reporter.py:44-60: create_issues returns or raises
EngagementReport ==
    /\ pc = "report"
    /\ calls' = Append(calls, Call("create_issues", 0,
                                   EngagementIssues(context_findings, config)))
    /\ \/ pc' = "done" /\ UNCHANGED exception
       \/ pc' = "raised" /\ exception' = "Exception"
    /\ UNCHANGED <<config, context_findings, item_index, wrappers,
                   dynamic_label_mapping, dynamic_field_mapping,
                   JIRA_SEVERITY_MAPPING, findings, meta>>
    /\ UNCHANGED <<separate_epic_linkage, idx, issue, created, comment_index,
                   new_tickets, existing_tickets, errors, attempted, returned,
                   failing, epic_calls>>
    /\ UNCHANGED <<chunkVars, utilsVars>>

NextEngagement ==
    \/ EngagementReport

SpecEngagement == InitEngagement /\ [][NextEngagement]_vars

\* C16: report() makes one create_issues call, with a payload for every
\* finding in findings order, none left out: the finding's title, type
\* Vulnerability, source_type security, the configured engagement id and the
\* finding's severity, or the least severe one when it has none; what the
\* call raises leaves report().
C16_EngagementBatch ==
    /\ pc = "report" => calls = <<>>
    /\ pc # "report" =>
          /\ Len(calls) = 1
          /\ calls[1].op = "create_issues"
          /\ Len(calls[1].arg) = Len(context_findings)
          /\ \A i \in 1..Len(context_findings) :
                LET payload == calls[1].arg[i]
                    finding == context_findings[i]
                IN  /\ payload.title = finding.title
                    /\ payload.type = "Vulnerability"
                    /\ payload.source_type = "security"
                    /\ payload.engagement = config.engagement_id
                    /\ payload.severity = IF finding.severity = "<missing>"
                                          THEN "Info" ELSE finding.severity
          /\ pc \in {"done", "raised"}
          /\ pc = "raised" <=> exception # ""

\* two findings, the first one flagged and with no severity: both payloads
\* are in the one call, which raised
C16_Witness ==
    /\ pc = "raised"
    /\ Len(context_findings) = 2
    /\ context_findings[1].flagged
    /\ context_findings[1].severity = "<missing>"
    /\ Len(calls) = 1
    /\ Len(calls[1].arg) = 2
    /\ calls[1].arg[1].severity = "Info"

\* an iteration of the loop of reporter.py:567-575 (269-277) that cuts a chunk
\* off the remainder and goes round again
RecutStep == pc = "cut_loop" /\ pc' = "cut_loop"

\* C21 as stated: for every positive max_description_size, those not above the
\* length of the cut marker included, every iteration of the loop that re-cuts
\* the remainder strictly shortens the remaining text, so the loop ends.
C21_RecutShortens ==
    [][RecutStep => Len(description_data') < Len(description_data)]_vars

\* C22 as stated: at the end of a run, every id that create_issue returned
\* with created = true has an entry in the new_tickets metadata, also when a
\* later step of that finding raised and the finding was recorded as an Error.
C22_CreatedTicketRecorded ==
    pc = "done" =>
        \A r \in 1..Len(returned) :
            returned[r].created => Entries(meta["new_tickets"], returned[r].key) >= 1

(***************************************************************************)
(* SpecProcess: several runs of the reporter in one process.  Every run    *)
(* has a Reporter of its own (reporter.py:45-52) and its own locals; the   *)
(* module-level constants.JIRA_SEVERITY_MAPPING is what the runs share.    *)
(***************************************************************************)

\* the configurations of the runs: one target, with any custom_mapping
ProcessConfigs == {Config(<<>>, <<>>, <<>>, target) : target \in Targets}

\* the findings of a run: one finding of any listed severity
ProcessItemLists ==
    {<<Item("DastFinding", FALSE, <<>>, SEVERITIES[i])>> : i \in 1..Len(SEVERITIES)}

InitProcess ==
    /\ pc = "wrappers"
    /\ exception = ""
    /\ ChunkUnused
    /\ SubmitIdle
    /\ config \in ProcessConfigs
    /\ context_findings \in ProcessItemLists
    /\ item_index = 0
    /\ wrappers = <<>>
    /\ dynamic_label_mapping = <<>>
    /\ dynamic_field_mapping = <<>>
    /\ JIRA_SEVERITY_MAPPING = DefaultSeverityMapping
    /\ UtilsIdle

\* reporter.py:45-61: the next run of the process, after a run that prepared
\* its findings or raised; the constants module is not loaded again
StartRun ==
    /\ pc \in {"routed", "raised"}
    /\ pc' = "wrappers"
    /\ exception' = ""
    /\ config' \in ProcessConfigs
    /\ context_findings' \in ProcessItemLists
    /\ item_index' = 0
    /\ wrappers' = <<>>
    /\ dynamic_label_mapping' = <<>>
    /\ dynamic_field_mapping' = <<>>
    /\ findings' = <<>>
    /\ meta' = <<>>
    /\ UNCHANGED JIRA_SEVERITY_MAPPING
    /\ UNCHANGED <<chunkVars, submitRest>>
    /\ UNCHANGED utilsVars

NextProcess ==
    \/ BuildWrappers
    \/ CompileLabels
    \/ CompileFields
    \/ PrepareItem
    \/ SetMappingMeta
    \/ StartRun

SpecProcess == InitProcess /\ [][NextProcess]_vars

\* C23 as stated: no run modifies constants.JIRA_SEVERITY_MAPPING, so the
\* priority a run computes for a severity under its configuration is the one
\* the table as loaded gives, whatever runs came before it in the process,
\* runs that had a custom_mapping and raised on an invalid target included.
C23_NoCrossRunState ==
    \A f \in 1..Len(findings) :
        findings[f].priority =
            MapPriority(DefaultSeverityMapping,
                        wrappers[findings[f].wrapper].priority_mapping,
                        findings[f].severity)

====
